---- MODULE Spec2Model ----
(***************************************************************************)
(* AI Art Arena: the PrizePool escrow contract, the Fastify backend        *)
(* (submit / admin routes over the in-memory game map), the AI judge and   *)
(* the settlement scheduler (game-automation).                             *)
(*                                                                         *)
(* Time is counted in ticks; one game of the standard 24 h duration lasts  *)
(* StdDuration ticks.                                                      *)
(***************************************************************************)
EXTENDS Integers, Sequences, FiniteSets, Bags, TLC

\* ------------------------------------------------------------------ bounds
MaxGames == 2
MaxTime == 3
MaxReq == 2
MaxSubs == 3
MaxLogs == 2

\* ------------------------------------------------------- program constants
ENTRY_FEE == 50000
PLATFORM_FEE_BPS == 1000
BPS_DENOMINATOR == 10000

\* the standard game duration (24 hours), in ticks
StdDuration == 1

\* --------------------------------------------------------------- accounts
\* addresses in their lower-case form
Players == {"0xaa", "0xbb", "0xcc"}
Owner == "owner"
Escrow == "PrizePool"
Wallets == {"platform", "treasury"}
NoAddress == "0x0"
Accounts == Players \cup Wallets \cup {Owner, Escrow}

GameIds == 0..MaxGames

\* the tokens the accounts hold at the start
InitialBalance(a) ==
  IF a = "0xaa" THEN 2 * ENTRY_FEE ELSE IF a \in Players THEN ENTRY_FEE ELSE 0

\* the durations startGame is called with, in ticks
Durations == {StdDuration}

\* the players and callers whose ledger transactions are explored
LedgerPlayers == {"0xaa", "0xbb"}
Callers == {Owner, "0xaa"}

VARIABLES
  now,            \* block.timestamp / Date.now(), in ticks
  currentGameId,  \* PrizePool.currentGameId
  games,          \* PrizePool.games: gameId -> Game
  gameEntries,    \* PrizePool.gameEntries: gameId -> Entry[]
  hasEntered,     \* PrizePool.hasEntered: gameId -> set of players
  usdc,           \* token balances: account -> amount
  platformWallet, \* PrizePool.platformWallet
  tx,             \* the last ledger transaction and its outcome
  payouts,        \* history: gameId -> number of finalizeGame calls that paid out
  apiCurrentGameId,     \* server: currentGameId
  apiGames,             \* server: games, gameId -> Game
  entriesForAutomation, \* server: gameId -> the game whose submissions array is linked (0: none)
  pending,              \* POST /api/submit requests awaiting verifyPayment (a bag)
  submitReply,          \* the last reply of POST /api/submit
  adm,                  \* POST /api/admin/finalize request in flight
  reply,                \* the last reply of an admin route
  fin,                  \* scheduler: the finalizeCurrentGame call of each trigger
  contractDeployed,     \* scheduler: PRIZE_POOL_ADDRESS is set
  apiKeySet,            \* judge: ANTHROPIC_API_KEY is set
  dbUrlSet,             \* server: DATABASE_URL is set
  dbEntries,            \* database: the rows of table entries, in insertion order
  dbGames,              \* database: table games, game_id -> row
  dreq,                 \* POST /api/submit of the server with the database, in flight
  pay,                  \* the last call of verifyPayment: its receipt and its result
  view,                 \* the last reading of the views: the game read, the time, the answers
  exec                  \* the finalizeGame transaction being executed, statement by statement

ledgerVars == <<currentGameId, games, gameEntries, hasEntered, usdc, platformWallet, tx, payouts>>
apiVars == <<apiCurrentGameId, apiGames, entriesForAutomation, pending, submitReply, adm, reply>>
config == <<contractDeployed, apiKeySet, dbUrlSet>>
schedVars == <<fin, config>>
dbVars == <<dbEntries, dbGames, dreq>>

\* Solidity's zero-initialised Game of an id that was never opened
EmptyGame ==
  [prizePool |-> 0, entryCount |-> 0, startTime |-> 0, endTime |-> 0,
   winner |-> NoAddress, finalized |-> FALSE]

NoTx == [fn |-> "none", gameId |-> 0, err |-> "", paidWinner |-> 0, paidFee |-> 0]

Reverted(fn, g, e) == [fn |-> fn, gameId |-> g, err |-> e, paidWinner |-> 0, paidFee |-> 0]

\* A reverted transaction changes no contract or token state
Revert(fn, g, e) ==
  /\ tx' = Reverted(fn, g, e)
  /\ UNCHANGED <<currentGameId, games, gameEntries, hasEntered, usdc, platformWallet, payouts>>

\* -------------------------------------------------------------- PrizePool

\* onlyOwner
IsOwner(caller) == caller = Owner

\* startGame(duration)
StartGame(caller, duration) ==
  /\ currentGameId < MaxGames
  /\ \/ /\ ~IsOwner(caller)
        /\ Revert("startGame", 0, "OwnableUnauthorizedAccount")
     \/ /\ IsOwner(caller)
        /\ currentGameId' = currentGameId + 1
        /\ games' = [games EXCEPT ![currentGameId + 1] =
                       [prizePool |-> 0, entryCount |-> 0, startTime |-> now,
                        endTime |-> now + duration, winner |-> NoAddress,
                        finalized |-> FALSE]]
        /\ tx' = Reverted("startGame", 0, "")
        /\ UNCHANGED <<gameEntries, hasEntered, usdc, platformWallet, payouts>>
  /\ UNCHANGED now

\* submitEntry without the hasEntered check
SubmitEntryError_NoEnteredCheck(game, entered, sender, balance) ==
  IF now < game.startTime \/ now > game.endTime THEN "GameNotActive"
  ELSE IF balance < ENTRY_FEE THEN "ERC20InsufficientBalance"
  ELSE ""

\* the checks of submitEntry, in the order of the code; "" when it passes
SubmitEntryError(game, entered, sender, balance) ==
  IF now < game.startTime \/ now > game.endTime THEN "GameNotActive"
  ELSE IF sender \in entered THEN "AlreadyEntered"
  ELSE IF balance < ENTRY_FEE THEN "ERC20InsufficientBalance"
  ELSE ""

\* the entered set when the sender is not recorded
MarkEntered_Skipped(entered, sender) == entered

\* hasEntered[currentGameId][msg.sender] = true
MarkEntered(entered, sender) == entered \cup {sender}

\* submitEntry(imageUri), msg.sender = sender
SubmitEntry(sender) ==
  LET g == currentGameId
      e == SubmitEntryError(games[g], hasEntered[g], sender, usdc[sender])
  IN /\ \/ /\ e # ""
           /\ Revert("submitEntry", 0, e)
        \/ /\ e = ""
           /\ usdc' = [usdc EXCEPT ![sender] = @ - ENTRY_FEE, ![Escrow] = @ + ENTRY_FEE]
           /\ games' = [games EXCEPT ![g].prizePool = @ + ENTRY_FEE,
                                     ![g].entryCount = @ + 1]
           /\ hasEntered' = [hasEntered EXCEPT ![g] = MarkEntered(@, sender)]
           /\ gameEntries' = [gameEntries EXCEPT ![g] =
                                Append(@, [player |-> sender])]
           /\ tx' = Reverted("submitEntry", 0, "")
           /\ UNCHANGED <<currentGameId, platformWallet, payouts>>
     /\ UNCHANGED now

\* platformFee = (game.prizePool * PLATFORM_FEE_BPS) / BPS_DENOMINATOR
PlatformFee(pool) == (pool * PLATFORM_FEE_BPS) \div BPS_DENOMINATOR

\* the prize when the fee is not deducted
WinnerPrize_NoDeduction(pool) == pool

\* winnerPrize = game.prizePool - platformFee
WinnerPrize(pool) == pool - PlatformFee(pool)

\* finalizeGame without the check of the finalized flag
FinalizeGameError_NoFinalizedCheck(caller, game, entries, winnerIndex) ==
  IF ~(caller = Owner) THEN "OwnableUnauthorizedAccount"
  ELSE IF now < game.endTime THEN "GameNotEnded"
  ELSE IF game.entryCount = 0 THEN "NoEntries"
  ELSE IF winnerIndex >= Len(entries) THEN "InvalidWinner"
  ELSE ""

\* finalizeGame without the check of the entry count
FinalizeGameError_NoEntriesCheck(caller, game, entries, winnerIndex) ==
  IF ~(caller = Owner) THEN "OwnableUnauthorizedAccount"
  ELSE IF now < game.endTime THEN "GameNotEnded"
  ELSE IF game.finalized THEN "GameAlreadyFinalized"
  ELSE IF winnerIndex >= Len(entries) THEN "InvalidWinner"
  ELSE ""

\* the checks of finalizeGame, in the order of the code; "" when it passes
FinalizeGameError(caller, game, entries, winnerIndex) ==
  IF ~IsOwner(caller) THEN "OwnableUnauthorizedAccount"
  ELSE IF now < game.endTime THEN "GameNotEnded"
  ELSE IF game.finalized THEN "GameAlreadyFinalized"
  ELSE IF game.entryCount = 0 THEN "NoEntries"
  ELSE IF winnerIndex >= Len(entries) THEN "InvalidWinner"
  ELSE ""

\* the token state after safeTransfer(to, amount) from the escrow
Transfer(bal, to, amount) ==
  [[bal EXCEPT ![Escrow] = @ - amount] EXCEPT ![to] = @ + amount]

\* finalizeGame(gameId, winnerIndex); winnerIndex is 0-based as in the code
FinalizeGame(caller, gameId, winnerIndex) ==
  LET game == games[gameId]
      entries == gameEntries[gameId]
      e == FinalizeGameError(caller, game, entries, winnerIndex)
      winner == entries[winnerIndex + 1].player
      platformFee == PlatformFee(game.prizePool)
      winnerPrize == WinnerPrize(game.prizePool)
  IN /\ \/ /\ e # ""
           /\ Revert("finalizeGame", gameId, e)
        \/ /\ e = ""
           /\ usdc[Escrow] < winnerPrize + platformFee
           /\ Revert("finalizeGame", gameId, "ERC20InsufficientBalance")
        \/ /\ e = ""
           /\ usdc[Escrow] >= winnerPrize + platformFee
           /\ games' = [games EXCEPT ![gameId].winner = winner,
                                     ![gameId].finalized = TRUE]
           /\ usdc' = Transfer(Transfer(usdc, winner, winnerPrize),
                               platformWallet, platformFee)
           /\ tx' = [fn |-> "finalizeGame", gameId |-> gameId, err |-> "",
                     paidWinner |-> winnerPrize, paidFee |-> platformFee]
           /\ payouts' = [payouts EXCEPT ![gameId] = @ + 1]
           /\ UNCHANGED <<currentGameId, gameEntries, hasEntered, platformWallet>>
     /\ UNCHANGED now

\* the game when finalizeGame leaves its writes out ahead of the transfers
FinalizeWrites_Unwritten(game, winner) == game

\* game.winner = winner; game.finalized = true
FinalizeWrites(game, winner) == [game EXCEPT !.winner = winner, !.finalized = TRUE]

NoExec == [pc |-> "none", gameId |-> 0, winner |-> NoAddress, winnerPrize |-> 0,
           platformFee |-> 0]

\* finalizeGame from its entry to its first external call: the modifiers, the
\* checks, the writes to the game and the fee arithmetic. A transfer that would
\* fail reverts the whole transaction, as if the call had never been made.
ExecFinalizeEnter(caller, gameId, winnerIndex) ==
  LET game == games[gameId]
      entries == gameEntries[gameId]
      e == FinalizeGameError(caller, game, entries, winnerIndex)
      winner == entries[winnerIndex + 1].player
      platformFee == PlatformFee(game.prizePool)
      winnerPrize == WinnerPrize(game.prizePool)
  IN /\ exec.pc = "none"
     /\ \/ /\ e # ""
           /\ Revert("finalizeGame", gameId, e)
           /\ UNCHANGED exec
        \/ /\ e = ""
           /\ usdc[Escrow] < winnerPrize + platformFee
           /\ Revert("finalizeGame", gameId, "ERC20InsufficientBalance")
           /\ UNCHANGED exec
        \/ /\ e = ""
           /\ usdc[Escrow] >= winnerPrize + platformFee
           /\ games' = [games EXCEPT ![gameId] = FinalizeWrites(@, winner)]
           /\ exec' = [pc |-> "transferWinner", gameId |-> gameId, winner |-> winner,
                       winnerPrize |-> winnerPrize, platformFee |-> platformFee]
           /\ UNCHANGED <<currentGameId, gameEntries, hasEntered, usdc, platformWallet,
                          tx, payouts>>
     /\ UNCHANGED now

\* usdc.safeTransfer(winner, winnerPrize)
ExecTransferWinner ==
  /\ exec.pc = "transferWinner"
  /\ usdc' = Transfer(usdc, exec.winner, exec.winnerPrize)
  /\ exec' = [exec EXCEPT !.pc = "transferFee"]
  /\ UNCHANGED <<now, currentGameId, games, gameEntries, hasEntered, platformWallet,
                 tx, payouts>>

\* usdc.safeTransfer(platformWallet, platformFee) and the end of the transaction
ExecTransferFee ==
  /\ exec.pc = "transferFee"
  /\ usdc' = Transfer(usdc, platformWallet, exec.platformFee)
  /\ tx' = [fn |-> "finalizeGame", gameId |-> exec.gameId, err |-> "",
            paidWinner |-> exec.winnerPrize, paidFee |-> exec.platformFee]
  /\ payouts' = [payouts EXCEPT ![exec.gameId] = @ + 1]
  /\ exec' = NoExec
  /\ UNCHANGED <<now, currentGameId, games, gameEntries, hasEntered, platformWallet>>

\* a call of finalizeGame made from inside a transfer of the running
\* finalizeGame: onlyOwner, then nonReentrant, refuse it
ExecReenter(caller, gameId, winnerIndex) ==
  /\ exec.pc \in {"transferWinner", "transferFee"}
  /\ Revert("finalizeGame", gameId,
            IF ~IsOwner(caller) THEN "OwnableUnauthorizedAccount"
            ELSE "ReentrancyGuardReentrantCall")
  /\ UNCHANGED <<now, exec>>

\* setPlatformWallet(_platformWallet)
SetPlatformWallet(caller, w) ==
  /\ \/ /\ ~IsOwner(caller)
        /\ Revert("setPlatformWallet", 0, "OwnableUnauthorizedAccount")
     \/ /\ IsOwner(caller)
        /\ platformWallet' = w
        /\ tx' = Reverted("setPlatformWallet", 0, "")
        /\ UNCHANGED <<currentGameId, games, gameEntries, hasEntered, usdc, payouts>>
  /\ UNCHANGED now

\* emergencyWithdraw()
EmergencyWithdraw(caller) ==
  LET game == games[currentGameId]
      balance == usdc[Escrow]
  IN /\ \/ /\ ~IsOwner(caller)
           /\ Revert("emergencyWithdraw", 0, "OwnableUnauthorizedAccount")
        \/ /\ IsOwner(caller)
           /\ ~(game.finalized \/ game.entryCount = 0)
           /\ Revert("emergencyWithdraw", 0, "Active game")
        \/ /\ IsOwner(caller)
           /\ game.finalized \/ game.entryCount = 0
           /\ usdc' = IF balance > 0 THEN Transfer(usdc, Owner, balance) ELSE usdc
           /\ tx' = Reverted("emergencyWithdraw", 0, "")
           /\ UNCHANGED <<currentGameId, games, gameEntries, hasEntered, platformWallet, payouts>>
     /\ UNCHANGED now

\* uint256 subtraction of Solidity 0.8: an underflow panics and the call reverts
Panic == -1

CheckedSub(a, b) == IF b > a THEN Panic ELSE a - b

\* isGameActive()
IsGameActive(game, timestamp) ==
  timestamp >= game.startTime /\ timestamp <= game.endTime

\* the time remaining computed without the test of the end time
GetTimeRemaining_NoGuard(game, timestamp) == CheckedSub(game.endTime, timestamp)

\* getTimeRemaining()
GetTimeRemaining(game, timestamp) ==
  IF timestamp >= game.endTime THEN 0 ELSE CheckedSub(game.endTime, timestamp)

\* GET /api/game: timeRemaining: Math.max(0, game.endTime - Date.now())
ApiTimeRemaining(endTime, dateNow) ==
  LET d == endTime - dateNow IN IF 0 >= d THEN 0 ELSE d

NoView == [called |-> FALSE, startTime |-> 0, endTime |-> 0, timestamp |-> 0,
           active |-> FALSE, timeRemaining |-> 0,
           apiEndTime |-> 0, apiTimeRemaining |-> 0]

\* a caller reads isGameActive() and getTimeRemaining() of the current game of
\* the contract, and GET /api/game of the server
ReadViews ==
  LET game == games[currentGameId]
      apiGame == apiGames[apiCurrentGameId]
  IN /\ view' = [called |-> TRUE, startTime |-> game.startTime, endTime |-> game.endTime,
                 timestamp |-> now, active |-> IsGameActive(game, now),
                 timeRemaining |-> GetTimeRemaining(game, now),
                 apiEndTime |-> apiGame.endTime,
                 apiTimeRemaining |-> ApiTimeRemaining(apiGame.endTime, now)]
     /\ UNCHANGED <<now, ledgerVars>>

\* ------------------------------------------------ payment verification
\* The transaction receipts the payment source returns, by transaction hash.
\* A receipt that is not found makes getTransactionReceipt throw.
TransferLog(token, topic, to, amount) ==
  [token |-> token, topic |-> topic, to |-> to, amount |-> amount]

Receipt(txHash) ==
  CASE txHash = "hA" ->
         [found |-> TRUE, status |-> "success",
          logs |-> <<TransferLog("USDC", "Transfer", Escrow, 50000)>>]
    [] txHash = "hB" ->
         [found |-> TRUE, status |-> "success",
          logs |-> <<TransferLog("USDC", "Transfer", Escrow, 60000)>>]
    [] txHash = "hLow" ->
         [found |-> TRUE, status |-> "success",
          logs |-> <<TransferLog("USDC", "Transfer", Escrow, 40000)>>]
    [] txHash = "hFail" ->
         [found |-> TRUE, status |-> "reverted",
          logs |-> <<TransferLog("USDC", "Transfer", Escrow, 50000)>>]
    [] txHash = "hOther" ->
         [found |-> TRUE, status |-> "success",
          logs |-> <<TransferLog("USDC", "Transfer", "0xbb", 50000),
                     TransferLog("DAI", "Transfer", Escrow, 50000),
                     TransferLog("USDC", "Approval", Escrow, 50000)>>]
    [] txHash = "hTwo" ->
         [found |-> TRUE, status |-> "success",
          logs |-> <<TransferLog("USDC", "Transfer", Escrow, 40000),
                     TransferLog("USDC", "Transfer", Escrow, 50000)>>]
    [] OTHER -> [found |-> FALSE, status |-> "", logs |-> <<>>]

TxHashes == {"hA", "hB", "hLow", "hFail", "hOther", "hTwo", "hNone"}

\* receipt.logs.find(log => USDC Transfer event to the prize pool): the index of
\* the first such log, 0 when there is none
FindTransferLog(logs) ==
  LET hits == {i \in 1..Len(logs) :
                 /\ logs[i].token = "USDC"
                 /\ logs[i].topic = "Transfer"
                 /\ logs[i].to = Escrow}
  IN IF hits = {} THEN 0 ELSE CHOOSE i \in hits : \A j \in hits : i <= j

\* verifyPayment when the amount of the transfer is not compared
VerifyReceipt_NoAmountCheck(receipt, expectedAmount) ==
  LET k == FindTransferLog(receipt.logs)
  IN IF ~receipt.found THEN [valid |-> FALSE, error |-> "Verification failed", amount |-> 0]
     ELSE IF receipt.status # "success"
       THEN [valid |-> FALSE, error |-> "Transaction failed", amount |-> 0]
     ELSE IF k = 0
       THEN [valid |-> FALSE, error |-> "No transfer to prize pool found", amount |-> 0]
     ELSE [valid |-> TRUE, error |-> "", amount |-> receipt.logs[k].amount]

\* the body of verifyPayment on the receipt that getTransactionReceipt returns;
\* a receipt that is not found is the lookup throwing, which the catch turns
\* into an invalid result
VerifyReceipt(receipt, expectedAmount) ==
  LET k == FindTransferLog(receipt.logs)
  IN IF ~receipt.found THEN [valid |-> FALSE, error |-> "Verification failed", amount |-> 0]
     ELSE IF receipt.status # "success"
       THEN [valid |-> FALSE, error |-> "Transaction failed", amount |-> 0]
     ELSE IF k = 0
       THEN [valid |-> FALSE, error |-> "No transfer to prize pool found", amount |-> 0]
     ELSE IF receipt.logs[k].amount < expectedAmount
       THEN [valid |-> FALSE, error |-> "Insufficient amount", amount |-> 0]
     ELSE [valid |-> TRUE, error |-> "", amount |-> receipt.logs[k].amount]

\* X402PaymentService.verifyPayment(txHash, expectedAmount)
VerifyPayment(txHash, expectedAmount) == VerifyReceipt(Receipt(txHash), expectedAmount)

\* the logs a receipt may carry
LogKinds ==
  {TransferLog(token, topic, to, amount) :
     token \in {"USDC", "DAI"}, topic \in {"Transfer", "Approval"},
     to \in {Escrow, "0xbb"}, amount \in {40000, 50000, 60000}}

\* the receipts a transaction hash may resolve to: none, or a receipt with a
\* status and up to MaxLogs logs
Receipts ==
  {[found |-> FALSE, status |-> "", logs |-> <<>>]} \cup
  {[found |-> TRUE, status |-> st, logs |-> l] :
     st \in {"success", "reverted"},
     l \in UNION {[1..n -> LogKinds] : n \in 0..MaxLogs}}

NoPay == [called |-> FALSE, receipt |-> [found |-> FALSE, status |-> "", logs |-> <<>>],
          expectedAmount |-> 0, result |-> [valid |-> FALSE, error |-> "", amount |-> 0]]

\* ------------------------------------------------------------- AI judge
\* The sub-score triples (creativity, technical, aesthetic) the judging model
\* answers with, and those of the demo mode (Math.floor(Math.random()*5)+5).
ScoreSamples == {<<7, 7, 7>>, <<9, 9, 9>>, <<1, 2, 3>>}
DemoSamples == {<<5, 5, 5>>, <<9, 9, 9>>}

\* a well-formed answer for the submissions ids: one score per submission, in
\* the order of the prompt
JudgeResponses(ids, samples) ==
  {[i \in 1..Len(ids) |->
      [submissionId |-> ids[i], creativity |-> f[i][1], technical |-> f[i][2],
       aesthetic |-> f[i][3]]] : f \in [1..Len(ids) -> samples]}

\* an id that names no submission, such as the "id" of the prompt's example
UnknownId == 99

\* the answers of the judging model as the code accepts them: JSON.parse checks
\* neither the ids nor their number, so an answer may name its first score with
\* an id that no submission has
JudgeAnswers(ids, samples) ==
  JudgeResponses(ids, samples) \cup
    {[r EXCEPT ![1].submissionId = UnknownId] : r \in JudgeResponses(ids, samples)}

\* scores.map(s => ({..., total: s.creativity + s.technical + s.aesthetic}))
WithTotals(parsed) ==
  [i \in 1..Len(parsed) |->
     [submissionId |-> parsed[i].submissionId, creativity |-> parsed[i].creativity,
      technical |-> parsed[i].technical, aesthetic |-> parsed[i].aesthetic,
      total |-> parsed[i].creativity + parsed[i].technical + parsed[i].aesthetic]]

\* one insertion of the stable sort: x goes behind every score whose total is
\* not smaller
InsertByTotal(sorted, x) ==
  LET ahead == {i \in 1..Len(sorted) : sorted[i].total >= x.total}
      k == Cardinality(ahead)
  IN SubSeq(sorted, 1, k) \o <<x>> \o SubSeq(sorted, k + 1, Len(sorted))

\* scores.sort((a, b) => b.total - a.total): Array.prototype.sort is stable
RECURSIVE SortByTotalDesc(_)
SortByTotalDesc(scores) ==
  IF scores = <<>> THEN <<>>
  ELSE InsertByTotal(SortByTotalDesc(SubSeq(scores, 1, Len(scores) - 1)),
                     scores[Len(scores)])

\* AIJudgeService.judgeSubmissions, given the parsed answer of the model for
\* two or more submissions; one submission wins without a call
JudgeSubmissions(ids, parsed) ==
  IF Len(ids) = 1
  THEN [scores |-> <<[submissionId |-> ids[1], creativity |-> 10, technical |-> 10,
                      aesthetic |-> 10, total |-> 30]>>,
        winnerId |-> ids[1], winnerScore |-> 30]
  ELSE LET scores == SortByTotalDesc(WithTotals(parsed))
       IN [scores |-> scores, winnerId |-> scores[1].submissionId,
           winnerScore |-> scores[1].total]

\* ------------------------------------------------------ backend server
\* the wallet addresses requests are sent with; "0xAA" is "0xaa" in another case
WalletAddresses == {"0xaa", "0xAA", "0xbb", "0xcc"}

ToLowerCase(a) == IF a = "0xAA" THEN "0xaa" ELSE a

NoApiGame ==
  [exists |-> FALSE, startTime |-> 0, endTime |-> 0, submissions |-> <<>>,
   finalized |-> FALSE, winnerId |-> 0]

NewApiGame(duration) ==
  [exists |-> TRUE, startTime |-> now, endTime |-> now + duration,
   submissions |-> <<>>, finalized |-> FALSE, winnerId |-> 0]

NoSubmitReply == [game |-> 0, walletAddress |-> "", error |-> "", position |-> 0]

IdleAdmin == [pc |-> "idle", game |-> 0, count |-> 0]

NoReply == [route |-> "none", error |-> ""]

\* game.submissions.some(s => s.playerAddress.toLowerCase() === walletAddress.toLowerCase())
AlreadyEntered(submissions, walletAddress) ==
  \E i \in 1..Len(submissions) :
    ToLowerCase(submissions[i].playerAddress) = ToLowerCase(walletAddress)

\* the checks of POST /api/submit before payment verification
SubmitCheckError(game, walletAddress) ==
  IF ~game.exists \/ now > game.endTime THEN "No active game"
  ELSE IF AlreadyEntered(game.submissions, walletAddress) THEN "Already entered this game"
  ELSE ""

\* the number of submissions the server holds, over all games
SubmissionCount ==
  Cardinality(UNION {{<<g, i>> : i \in 1..Len(apiGames[g].submissions)} : g \in GameIds})

\* the ids of submissions are unique: sub_<time>_<random>
NextSubmissionId == 1 + SubmissionCount

\* POST /api/submit up to the await of verifyPayment
ApiSubmitBegin(walletAddress, paymentTxHash) ==
  LET game == apiGames[apiCurrentGameId]
      e == SubmitCheckError(game, walletAddress)
  IN /\ BagCardinality(pending) < MaxReq
     /\ SubmissionCount + BagCardinality(pending) < MaxSubs
     /\ \/ /\ e # ""
           /\ submitReply' = [game |-> apiCurrentGameId, walletAddress |-> walletAddress,
                              error |-> e, position |-> 0]
           /\ UNCHANGED pending
        \/ /\ e = ""
           /\ pending' = pending (+) SetToBag({[game |-> apiCurrentGameId,
                                                walletAddress |-> walletAddress,
                                                paymentTxHash |-> paymentTxHash]})
           /\ UNCHANGED submitReply
     /\ UNCHANGED <<now, apiCurrentGameId, apiGames, entriesForAutomation, adm, reply>>

\* POST /api/submit from the answer of verifyPayment on: `game` is the object
\* read before the await, currentGameId is read again
ApiSubmitVerified(q) ==
  LET verification == VerifyPayment(q.paymentTxHash, ENTRY_FEE)
      submission == [id |-> NextSubmissionId, gameId |-> apiCurrentGameId,
                     playerAddress |-> q.walletAddress, timestamp |-> now,
                     paymentTxHash |-> q.paymentTxHash]
  IN /\ BagIn(q, pending)
     /\ pending' = pending (-) SetToBag({q})
     /\ \/ /\ ~verification.valid
           /\ submitReply' = [game |-> q.game, walletAddress |-> q.walletAddress,
                              error |-> "Payment verification failed", position |-> 0]
           /\ UNCHANGED <<apiGames, entriesForAutomation>>
        \/ /\ verification.valid
           /\ apiGames' = [apiGames EXCEPT ![q.game].submissions = Append(@, submission)]
           /\ entriesForAutomation' =
                IF entriesForAutomation[apiCurrentGameId] = 0
                THEN [entriesForAutomation EXCEPT ![apiCurrentGameId] = q.game]
                ELSE entriesForAutomation
           /\ submitReply' = [game |-> q.game, walletAddress |-> q.walletAddress,
                              error |-> "",
                              position |-> Len(apiGames[q.game].submissions) + 1]
     /\ UNCHANGED <<now, apiCurrentGameId, adm, reply>>

\* POST /api/admin/start-game
ApiStartGame(duration) ==
  LET previousGame == apiGames[apiCurrentGameId]
  IN /\ apiCurrentGameId < MaxGames
     /\ \/ /\ previousGame.exists /\ ~previousGame.finalized
              /\ Len(previousGame.submissions) > 0
           /\ reply' = [route |-> "start-game", error |-> "Previous game not finalized"]
           /\ UNCHANGED <<apiCurrentGameId, apiGames>>
        \/ /\ ~(previousGame.exists /\ ~previousGame.finalized
                /\ Len(previousGame.submissions) > 0)
           /\ apiCurrentGameId' = apiCurrentGameId + 1
           /\ apiGames' = [apiGames EXCEPT ![apiCurrentGameId + 1] = NewApiGame(duration)]
           /\ reply' = [route |-> "start-game", error |-> ""]
     /\ UNCHANGED <<now, entriesForAutomation, pending, submitReply, adm>>

SubmissionIds(submissions, n) == [i \in 1..n |-> submissions[i].id]

\* the checks of POST /api/admin/finalize
AdminFinalizeError(game) ==
  IF ~game.exists THEN "No game to finalize"
  ELSE IF game.finalized THEN "Game already finalized"
  ELSE IF Len(game.submissions) = 0 THEN "No submissions to judge"
  ELSE ""

\* POST /api/admin/finalize up to the await of the judging model; a single
\* submission is judged without a call and the handler runs to its end
ApiAdminFinalizeBegin ==
  LET game == apiGames[apiCurrentGameId]
      e == AdminFinalizeError(game)
      n == Len(game.submissions)
      result == JudgeSubmissions(SubmissionIds(game.submissions, 1), <<>>)
  IN /\ adm.pc = "idle"
     /\ \/ /\ e # ""
           /\ reply' = [route |-> "finalize", error |-> e]
           /\ UNCHANGED <<apiGames, adm>>
        \/ /\ e = ""
           /\ n = 1
           /\ apiGames' = [apiGames EXCEPT ![apiCurrentGameId].finalized = TRUE,
                                           ![apiCurrentGameId].winnerId = result.winnerId]
           /\ reply' = [route |-> "finalize", error |-> ""]
           /\ UNCHANGED adm
        \/ /\ e = ""
           /\ n > 1
           /\ adm' = [pc |-> "judging", game |-> apiCurrentGameId, count |-> n]
           /\ UNCHANGED <<apiGames, reply>>
     /\ UNCHANGED <<now, apiCurrentGameId, entriesForAutomation, pending, submitReply>>

\* POST /api/admin/finalize from the answer of the judging model on
ApiAdminFinalizeJudged ==
  LET ids == SubmissionIds(apiGames[adm.game].submissions, adm.count)
  IN /\ adm.pc = "judging"
     /\ \/ \E parsed \in JudgeAnswers(ids, ScoreSamples) :
             LET result == JudgeSubmissions(ids, parsed)
             IN /\ apiGames' = [apiGames EXCEPT ![adm.game].finalized = TRUE,
                                                ![adm.game].winnerId = result.winnerId]
                /\ reply' = [route |-> "finalize", error |-> ""]
        \/ /\ reply' = [route |-> "finalize", error |-> "Internal Server Error"]
           /\ UNCHANGED apiGames
     /\ adm' = IdleAdmin
     /\ UNCHANGED <<now, apiCurrentGameId, entriesForAutomation, pending, submitReply>>

\* the admin routes as called by `caller`: the handlers read no credential, no
\* header and no signature, so the caller has no part in what they do
AdminStartGame(caller, duration) == ApiStartGame(duration)

AdminFinalize(caller) == ApiAdminFinalizeBegin \/ ApiAdminFinalizeJudged

\* ------------------------------------- server with the database (index.ts)
\* The later version of the server keeps the same in-memory games and adds a
\* PostgreSQL store, used when DATABASE_URL is set.

\* rowsBefore and countBefore remember the entries table and the game's
\* entry_count as they were when the request arrived
IdleSubmit ==
  [pc |-> "idle", gameId |-> 0, walletAddress |-> "", paymentTxHash |-> "",
   rowsBefore |-> 0, countBefore |-> 0]

NoDbGame == [exists |-> FALSE, entryCount |-> 0, prizePool |-> 0]

\* the score columns of an entries row: NULL until updateEntryScores sets them
NoScore == [creativity |-> 0, technique |-> 0, theme |-> 0, total |-> 0]

\* the rows of table entries of one game, in insertion order
DbEntriesOf(gameId) == SelectSeq(dbEntries, LAMBDA row : row.gameId = gameId)

\* db.hasPlayerEntered(gameId, playerAddress)
HasPlayerEntered(gameId, playerAddress) ==
  \E i \in 1..Len(dbEntries) :
    /\ dbEntries[i].gameId = gameId
    /\ dbEntries[i].playerAddress = ToLowerCase(playerAddress)

\* GET /api/game with DATABASE_URL set: db.getOrCreateGame inserts the row of
\* the current game when it is missing
DbGetGame ==
  /\ dbUrlSet
  /\ ~dbGames[apiCurrentGameId].exists
  /\ dbGames' = [dbGames EXCEPT ![apiCurrentGameId] = [NoDbGame EXCEPT !.exists = TRUE]]
  /\ UNCHANGED <<now, ledgerVars, apiVars, schedVars, dbEntries, dreq, pay, view, exec>>

\* POST /api/submit up to the await of verifyPayment
DbSubmitBegin(walletAddress, paymentTxHash) ==
  /\ dreq.pc = "idle"
  /\ SubmissionCount + Len(dbEntries) < MaxSubs
  /\ dreq' = [pc |-> "verify", gameId |-> apiCurrentGameId,
              walletAddress |-> walletAddress, paymentTxHash |-> paymentTxHash,
              rowsBefore |-> Len(dbEntries),
              countBefore |-> dbGames[apiCurrentGameId].entryCount]
  /\ UNCHANGED <<now, ledgerVars, apiVars, schedVars, dbEntries, dbGames, pay, view, exec>>

\* the in-memory path of POST /api/submit, run to its end: taken without
\* DATABASE_URL and from the catch of a database error
MemorySubmit ==
  LET game == apiGames[apiCurrentGameId]
      e == SubmitCheckError(game, dreq.walletAddress)
      submission == [id |-> NextSubmissionId, gameId |-> apiCurrentGameId,
                     playerAddress |-> dreq.walletAddress, timestamp |-> now,
                     paymentTxHash |-> dreq.paymentTxHash]
  IN /\ dreq' = IdleSubmit
     /\ \/ /\ e # ""
           /\ submitReply' = [game |-> apiCurrentGameId, walletAddress |-> dreq.walletAddress,
                              error |-> e, position |-> 0]
           /\ UNCHANGED <<apiGames, entriesForAutomation>>
        \/ /\ e = ""
           /\ apiGames' = [apiGames EXCEPT ![apiCurrentGameId].submissions =
                             Append(@, submission)]
           /\ entriesForAutomation' =
                IF entriesForAutomation[apiCurrentGameId] = 0
                THEN [entriesForAutomation EXCEPT ![apiCurrentGameId] = apiCurrentGameId]
                ELSE entriesForAutomation
           /\ submitReply' = [game |-> apiCurrentGameId, walletAddress |-> dreq.walletAddress,
                              error |-> "", position |-> Len(game.submissions) + 1]

\* a reply of the database path: the in-memory games are not touched
DbReply(error, position) ==
  /\ dreq' = IdleSubmit
  /\ submitReply' = [game |-> dreq.gameId, walletAddress |-> dreq.walletAddress,
                     error |-> error, position |-> position]
  /\ UNCHANGED <<apiGames, entriesForAutomation>>

\* the request moves on to its next database call
DbGoto(pc) ==
  /\ dreq' = [dreq EXCEPT !.pc = pc]
  /\ UNCHANGED <<submitReply, apiGames, entriesForAutomation>>

dbFrame == <<now, ledgerVars, apiCurrentGameId, pending, adm, reply, schedVars, pay, view, exec>>

\* verifyPayment answers
DbSubmitVerified ==
  /\ dreq.pc = "verify"
  /\ IF ~VerifyPayment(dreq.paymentTxHash, ENTRY_FEE).valid
     THEN DbReply("Payment verification failed", 0)
     ELSE IF dbUrlSet THEN DbGoto("hasPlayerEntered") ELSE MemorySubmit
  /\ UNCHANGED <<dbFrame, dbEntries, dbGames>>

\* db.hasPlayerEntered answers or throws
DbHasEntered ==
  /\ dreq.pc = "hasPlayerEntered"
  /\ \/ IF HasPlayerEntered(dreq.gameId, dreq.walletAddress)
        THEN DbReply("Already entered this game", 0)
        ELSE DbGoto("addEntry")
     \/ MemorySubmit
  /\ UNCHANGED <<dbFrame, dbEntries, dbGames>>

\* db.addEntry inserts the row, or throws: the connection fails or the row
\* breaks UNIQUE(game_id, player_address)
DbAddEntry ==
  /\ dreq.pc = "addEntry"
  /\ \/ /\ ~HasPlayerEntered(dreq.gameId, dreq.walletAddress)
        /\ dbEntries' = Append(dbEntries,
                          [gameId |-> dreq.gameId,
                           playerAddress |-> ToLowerCase(dreq.walletAddress),
                           paymentTxHash |-> dreq.paymentTxHash,
                           score |-> NoScore])
        /\ DbGoto("updateGamePrizePool")
     \/ MemorySubmit /\ UNCHANGED dbEntries
  /\ UNCHANGED <<dbFrame, dbGames>>

\* db.updateGamePrizePool(gameId, '0.05'): UPDATE games ... WHERE game_id, which
\* changes no row when the game has none; or it throws
DbUpdatePool ==
  /\ dreq.pc = "updateGamePrizePool"
  /\ \/ /\ dbGames' = IF dbGames[dreq.gameId].exists
                      THEN [dbGames EXCEPT ![dreq.gameId].prizePool = @ + ENTRY_FEE,
                                           ![dreq.gameId].entryCount = @ + 1]
                      ELSE dbGames
        /\ DbGoto("getEntriesForGame")
     \/ MemorySubmit /\ UNCHANGED dbGames
  /\ UNCHANGED <<dbFrame, dbEntries>>

\* db.getEntriesForGame answers and the request returns its position, or it throws
DbGetEntries ==
  /\ dreq.pc = "getEntriesForGame"
  /\ \/ DbReply("", Len(DbEntriesOf(dreq.gameId)))
     \/ MemorySubmit
  /\ UNCHANGED <<dbFrame, dbEntries, dbGames>>

\* the triples a judging run hands to updateEntryScores: those of the model,
\* those of the demo mode and the 10/10/10 of a single entry
JudgedTriples == ScoreSamples \cup DemoSamples \cup {<<10, 10, 10>>}

\* db.updateEntryScores(gameId, playerAddress, creativity, technique, theme):
\* UPDATE entries SET ... WHERE game_id = $6 AND player_address = $7
UpdateEntryScores(gameId, playerAddress, creativity, technique, theme) ==
  LET total == creativity + technique + theme
  IN /\ dbUrlSet
     /\ dreq.pc = "idle"
     /\ dbEntries' =
          [i \in 1..Len(dbEntries) |->
             IF /\ dbEntries[i].gameId = gameId
                /\ dbEntries[i].playerAddress = ToLowerCase(playerAddress)
             THEN [dbEntries[i] EXCEPT !.score =
                     [creativity |-> creativity, technique |-> technique,
                      theme |-> theme, total |-> total]]
             ELSE dbEntries[i]]
     /\ UNCHANGED <<dbFrame, submitReply, apiGames, entriesForAutomation, dbGames, dreq>>

\* ------------------------------------------------- settlement scheduler
\* the two front doors of finalizeCurrentGame: the cron job and
\* POST /api/admin/auto-finalize (manualFinalize)
Triggers == {"cron", "route"}

IdleAttempt ==
  [pc |-> "idle", gameId |-> 0, store |-> 0, count |-> 0, totals |-> <<>>,
   decided |-> FALSE, winnerIndex |-> 0, highestScore |-> 0,
   success |-> FALSE, error |-> ""]

\* the attempt's return value { success, gameId, winner, error }: the locals of
\* the call are gone
Returned(a, success, error) ==
  [IdleAttempt EXCEPT !.gameId = a.gameId, !.winnerIndex = a.winnerIndex,
                      !.highestScore = a.highestScore,
                      !.success = success, !.error = error]

\* entriesStorage?.get(gameId) || []: the linked array is the live submissions
\* array of a game of the server
StorageEntries(store) == IF store = 0 THEN <<>> ELSE apiGames[store].submissions

\* the SimpleScore of a JudgeScore
SimpleScore(s) == [creativity |-> s.creativity, technique |-> s.technical, theme |-> s.aesthetic]

\* judgeArtworks without ANTHROPIC_API_KEY: one random score per submission
DemoScores(n) ==
  {[i \in 1..n |-> [creativity |-> f[i][1], technique |-> f[i][2], theme |-> f[i][3]]] :
     f \in [1..n -> DemoSamples]}

\* submissions.map((e, i) => ({ id: i.toString(), ... }))
IndexIds(n) == [i \in 1..n |-> i - 1]

\* judgeArtworks with ANTHROPIC_API_KEY: result.scores.map(...) of judgeSubmissions
JudgeArtworks(n, parsed) ==
  LET result == JudgeSubmissions(IndexIds(n), parsed)
  IN [i \in 1..Len(result.scores) |-> SimpleScore(result.scores[i])]

\* scores.forEach((score, index) => { if (total > highestScore) ... })
RECURSIVE ScanScores(_, _, _, _)
ScanScores(scores, i, winnerIndex, highestScore) ==
  IF i > Len(scores) THEN [winnerIndex |-> winnerIndex, highestScore |-> highestScore]
  ELSE LET total == scores[i].creativity + scores[i].technique + scores[i].theme
       IN IF total > highestScore
          THEN ScanScores(scores, i + 1, i - 1, total)
          ELSE ScanScores(scores, i + 1, winnerIndex, highestScore)

WinnerScan(scores) == ScanScores(scores, 1, 0, 0)

\* the total the judge gave to each entry, in admission order, when scores[i]
\* is the score of entry i
TotalsOf(scores) ==
  [i \in 1..Len(scores) |-> scores[i].creativity + scores[i].technique + scores[i].theme]

\* the same for the parsed answer of the model
ParsedTotals(parsed) ==
  [i \in 1..Len(parsed) |-> parsed[i].creativity + parsed[i].technical + parsed[i].aesthetic]

\* the attempt once judgeArtworks has answered `scores`; totals[i] is the total
\* the judge gave to entry i
Decided(a, scores, totals) ==
  LET w == WinnerScan(scores)
  IN [a EXCEPT !.totals = totals, !.decided = TRUE,
               !.winnerIndex = w.winnerIndex, !.highestScore = w.highestScore]

\* the attempt goes on with entry 0 and no score when the judge fails
JudgeThrows_FirstEntryWins(a) == [Decided(a, <<>>, <<>>) EXCEPT !.pc = "sendTx"]

\* judgeSubmissions throws (the call fails, no text, no JSON, JSON.parse fails):
\* judgeArtworks lets it through and the catch of finalizeCurrentGame returns it
JudgeThrows(a) == Returned(a, FALSE, "Could not parse judge response")

\* what the attempt does after the entries were read from the storage, up to
\* its next await: the set of its possible next states
AfterEntries(a, store) ==
  LET entries == StorageEntries(store)
      n == Len(entries)
      b == [a EXCEPT !.store = store, !.count = n]
      pcNext == IF contractDeployed THEN "sendTx" ELSE "idle"
      done(x) == IF contractDeployed THEN [x EXCEPT !.pc = "sendTx"]
                 ELSE Returned(x, TRUE, "")
  IN IF n = 0
     THEN {Returned(b, FALSE, IF contractDeployed THEN "No entries in storage"
                              ELSE "No entries")}
     ELSE IF ~apiKeySet
     THEN {done(Decided(b, scores, TotalsOf(scores))) : scores \in DemoScores(n)}
     ELSE IF n = 1
     THEN {done(Decided(b, JudgeArtworks(1, <<>>), <<30>>))}
     ELSE {[b EXCEPT !.pc = "judging"]}

\* POST /api/admin/auto-finalize after manualFinalize() returned: a new game is
\* opened on the server when the attempt reports success
RouteAfter(t, a) ==
  IF t = "route" /\ a.pc = "idle" /\ a.success
  THEN /\ apiCurrentGameId' = apiCurrentGameId + 1
       /\ apiGames' = [apiGames EXCEPT ![apiCurrentGameId + 1] = NewApiGame(StdDuration)]
       /\ reply' = [route |-> "auto-finalize", error |-> ""]
  ELSE /\ UNCHANGED <<apiCurrentGameId, apiGames>>
       /\ reply' = IF t = "route" /\ a.pc = "idle"
                   THEN [route |-> "auto-finalize", error |-> a.error]
                   ELSE reply

apiRest == <<entriesForAutomation, pending, submitReply, adm>>

\* finalizeCurrentGame from its call to its first await; without a deployed
\* contract it is finalizeWithoutContract, which reads game 1
FinBegin(t) ==
  /\ fin[t].pc = "idle"
  /\ t = "route" => apiCurrentGameId < MaxGames
  /\ \/ /\ contractDeployed
        /\ fin' = [fin EXCEPT ![t] = [IdleAttempt EXCEPT !.pc = "readId"]]
        /\ UNCHANGED <<apiCurrentGameId, apiGames, reply>>
     \/ /\ ~contractDeployed
        /\ \E a \in AfterEntries([IdleAttempt EXCEPT !.gameId = 1], entriesForAutomation[1]) :
             /\ fin' = [fin EXCEPT ![t] = a]
             /\ RouteAfter(t, a)
  /\ UNCHANGED <<now, ledgerVars, apiRest, config, dbVars, pay, view, exec>>

\* readContract currentGameId
FinReadId(t) ==
  /\ fin[t].pc = "readId"
  /\ fin' = [fin EXCEPT ![t].pc = "readInfo", ![t].gameId = currentGameId]
  /\ UNCHANGED <<now, ledgerVars, apiVars, config, dbVars, pay, view, exec>>

\* the branch taken when the check of the entry count is left out
InfoBranch_NoEmptyCheck(game) ==
  IF game.finalized THEN "finalized" ELSE "entries"

\* the branch taken on the game info read from the contract
InfoBranch(game) ==
  IF game.finalized THEN "finalized"
  ELSE IF game.entryCount = 0 THEN "empty"
  ELSE "entries"

\* readContract getGameInfo and what follows up to the next await
FinReadInfo(t) ==
  LET a == fin[t]
      branch == InfoBranch(games[a.gameId])
  IN /\ a.pc = "readInfo"
     /\ \/ /\ branch = "finalized"
           /\ fin' = [fin EXCEPT ![t] = Returned(a, FALSE, "Game already finalized")]
        \/ /\ branch = "empty"
           /\ fin' = [fin EXCEPT ![t].pc = "startNewEmpty"]
        \/ /\ branch = "entries"
           /\ \E b \in AfterEntries(a, entriesForAutomation[a.gameId]) :
                fin' = [fin EXCEPT ![t] = b]
     /\ RouteAfter(t, fin'[t])
     /\ UNCHANGED <<now, ledgerVars, apiRest, config, dbVars, pay, view, exec>>

\* the judging model answers, or the call or the parsing of its answer throws
FinJudged(t) ==
  LET a == fin[t]
      done(x) == IF contractDeployed THEN [x EXCEPT !.pc = "sendTx"]
                 ELSE Returned(x, TRUE, "")
  IN /\ a.pc = "judging"
     /\ \/ \E parsed \in JudgeResponses(IndexIds(a.count), ScoreSamples) :
             fin' = [fin EXCEPT ![t] =
                       done(Decided(a, JudgeArtworks(a.count, parsed), ParsedTotals(parsed)))]
        \/ fin' = [fin EXCEPT ![t] = JudgeThrows(a)]
     /\ RouteAfter(t, fin'[t])
     /\ UNCHANGED <<now, ledgerVars, apiRest, config, dbVars, pay, view, exec>>

\* writeContract finalizeGame(currentGameId, winnerIndex), sent by the owner
FinSendTx(t) ==
  LET a == fin[t]
  IN /\ a.pc = "sendTx"
     /\ FinalizeGame(Owner, a.gameId, a.winnerIndex)
     /\ fin' = [fin EXCEPT ![t] = IF tx'.err = "" THEN [a EXCEPT !.pc = "waitReceipt"]
                                  ELSE Returned(a, FALSE, tx'.err)]
     /\ RouteAfter(t, fin'[t])
     /\ UNCHANGED <<apiRest, config, dbVars, pay, view, exec>>

\* waitForTransactionReceipt returns
FinReceipt(t) ==
  /\ fin[t].pc = "waitReceipt"
  /\ fin' = [fin EXCEPT ![t].pc = "startNew"]
  /\ UNCHANGED <<now, ledgerVars, apiVars, config, dbVars, pay, view, exec>>

\* a call to the chain throws (the RPC endpoint or the ABI rejects it): the
\* catch of finalizeCurrentGame returns the failure
FinRpcError(t) ==
  LET a == fin[t]
  IN /\ a.pc \in {"readId", "readInfo", "sendTx", "waitReceipt"}
     /\ fin' = [fin EXCEPT ![t] = Returned(a, FALSE, "RPC error")]
     /\ RouteAfter(t, fin'[t])
     /\ UNCHANGED <<now, ledgerVars, apiRest, config, dbVars, pay, view, exec>>

\* startNewGame(), which swallows its errors, and the return of
\* finalizeCurrentGame behind it
FinStartNew(t) ==
  LET a == fin[t]
  IN /\ a.pc \in {"startNew", "startNewEmpty"}
     /\ \/ StartGame(Owner, StdDuration)
        \/ UNCHANGED <<now, ledgerVars>>
     /\ fin' = [fin EXCEPT ![t] =
                  IF a.pc = "startNew" THEN Returned(a, TRUE, "")
                  ELSE Returned(a, FALSE, "No entries, started new game")]
     /\ RouteAfter(t, fin'[t])
     /\ UNCHANGED <<apiRest, config, dbVars, pay, view, exec>>

\* the passage of time
Tick ==
  /\ now < MaxTime
  /\ now' = now + 1
  /\ UNCHANGED <<ledgerVars, apiVars, schedVars, dbVars, pay, view, exec>>

vars == <<now, ledgerVars, apiVars, schedVars, dbVars, pay, view, exec>>

\* the contract after its constructor; the server after start(): game 1 is open
\* and linked to the automation storage; no finalization running
Constructed ==
  /\ now = 1
  /\ currentGameId = 0
  /\ games = [g \in GameIds |-> EmptyGame]
  /\ gameEntries = [g \in GameIds |-> <<>>]
  /\ hasEntered = [g \in GameIds |-> {}]
  /\ usdc = [a \in Accounts |-> InitialBalance(a)]
  /\ platformWallet = "platform"
  /\ tx = NoTx
  /\ payouts = [g \in GameIds |-> 0]
  /\ apiCurrentGameId = 1
  /\ apiGames = [g \in GameIds |-> IF g = 1 THEN NewApiGame(StdDuration) ELSE NoApiGame]
  /\ entriesForAutomation = [g \in GameIds |-> IF g = 1 THEN 1 ELSE 0]
  /\ pending = EmptyBag
  /\ submitReply = NoSubmitReply
  /\ adm = IdleAdmin
  /\ reply = NoReply
  /\ fin = [t \in Triggers |-> IdleAttempt]
  /\ dbEntries = <<>>
  /\ dbGames = [g \in GameIds |-> NoDbGame]
  /\ dreq = IdleSubmit
  /\ view = NoView
  /\ exec = NoExec

\* a deployment with the contract address and the judge's key configured
Init ==
  /\ Constructed
  /\ contractDeployed = TRUE
  /\ apiKeySet = TRUE
  /\ dbUrlSet = FALSE
  /\ pay = NoPay

\* any deployment: with or without the contract address, with or without the key
InitSched ==
  /\ Constructed
  /\ contractDeployed \in BOOLEAN
  /\ apiKeySet \in BOOLEAN
  /\ dbUrlSet = FALSE
  /\ pay = NoPay

\* the server with the database code, with or without DATABASE_URL
InitDb ==
  /\ Constructed
  /\ contractDeployed = TRUE
  /\ apiKeySet = TRUE
  /\ dbUrlSet \in BOOLEAN
  /\ pay = NoPay

Next ==
  \/ Tick
  \/ \E c \in Callers, d \in Durations : StartGame(c, d) /\ UNCHANGED <<apiVars, schedVars, dbVars, pay, view, exec>>
  \/ \E p \in LedgerPlayers : SubmitEntry(p) /\ UNCHANGED <<apiVars, schedVars, dbVars, pay, view, exec>>
  \/ \E c \in Callers, g \in GameIds, i \in 0..Cardinality(LedgerPlayers) :
       FinalizeGame(c, g, i) /\ UNCHANGED <<apiVars, schedVars, dbVars, pay, view, exec>>
  \/ \E c \in Callers : EmergencyWithdraw(c) /\ UNCHANGED <<apiVars, schedVars, dbVars, pay, view, exec>>

\* the contract alone, called by its owner and by players, the platform wallet
\* as constructed
Spec == Init /\ [][Next]_vars

NextWallet ==
  \/ Next
  \/ \E c \in Callers, w \in Wallets : SetPlatformWallet(c, w) /\ UNCHANGED <<apiVars, schedVars, dbVars, pay, view, exec>>

\* the contract alone, the owner also moving the platform wallet
SpecWallet == Init /\ [][NextWallet]_vars

\* the requests explored against the server
ApiWallets == {"0xaa", "0xAA", "0xbb"}
ApiHashes == {"hA", "hLow"}

NextApi ==
  \/ Tick
  \/ \E w \in ApiWallets, h \in ApiHashes : ApiSubmitBegin(w, h) /\ UNCHANGED <<ledgerVars, schedVars, dbVars, pay, view, exec>>
  \/ \E q \in BagToSet(pending) : ApiSubmitVerified(q) /\ UNCHANGED <<ledgerVars, schedVars, dbVars, pay, view, exec>>
  \/ ApiStartGame(StdDuration) /\ UNCHANGED <<ledgerVars, schedVars, dbVars, pay, view, exec>>
  \/ ApiAdminFinalizeBegin /\ UNCHANGED <<ledgerVars, schedVars, dbVars, pay, view, exec>>
  \/ ApiAdminFinalizeJudged /\ UNCHANGED <<ledgerVars, schedVars, dbVars, pay, view, exec>>

\* the server alone, its requests interleaved at their awaits
SpecApi == Init /\ [][NextApi]_vars

LedgerAtRest == tx = NoTx
ApiAtRest == pending = EmptyBag /\ submitReply = NoSubmitReply /\ reply = NoReply

\* Entry admission, on the contract and on the server, the submits to the
\* server handled one after the other. The contract and the server's game map
\* share no state, so each is explored with the other at rest.
NextEntries ==
  \/ Tick
  \/ \E d \in Durations : ApiAtRest /\ StartGame(Owner, d) /\ UNCHANGED <<apiVars, schedVars, dbVars, pay, view, exec>>
  \/ \E p \in LedgerPlayers : ApiAtRest /\ SubmitEntry(p) /\ UNCHANGED <<apiVars, schedVars, dbVars, pay, view, exec>>
  \/ \E g \in GameIds, i \in 0..Cardinality(LedgerPlayers) :
       ApiAtRest /\ FinalizeGame(Owner, g, i) /\ UNCHANGED <<apiVars, schedVars, dbVars, pay, view, exec>>
  \/ \E w \in ApiWallets, h \in ApiHashes :
       LedgerAtRest /\ pending = EmptyBag /\ ApiSubmitBegin(w, h) /\ UNCHANGED <<ledgerVars, schedVars, dbVars, pay, view, exec>>
  \/ \E q \in BagToSet(pending) :
       LedgerAtRest /\ ApiSubmitVerified(q) /\ UNCHANGED <<ledgerVars, schedVars, dbVars, pay, view, exec>>
  \/ LedgerAtRest /\ ApiStartGame(StdDuration) /\ UNCHANGED <<ledgerVars, schedVars, dbVars, pay, view, exec>>

SpecEntries == Init /\ [][NextEntries]_vars

\* the players enter in a fixed order: who enters is no matter to the scheduler
EntryOrder == <<"0xaa", "0xbb", "0xcc">>

NotSettled == \A t \in Triggers : fin[t] = IdleAttempt

\* The scheduler against the contract and the server's entry storage: players
\* enter on both, the owner opens the first game and may finalize by hand, and
\* one finalizeCurrentGame call is made, by the cron job or by the
\* auto-finalize route.
NextSched ==
  \/ Tick
  \/ contractDeployed /\ currentGameId = 0 /\ StartGame(Owner, StdDuration)
       /\ UNCHANGED <<apiVars, schedVars, dbVars, pay, view, exec>>
  \/ /\ contractDeployed
     /\ games[currentGameId].entryCount < Cardinality(LedgerPlayers)
     /\ SubmitEntry(EntryOrder[games[currentGameId].entryCount + 1])
     /\ UNCHANGED <<apiVars, schedVars, dbVars, pay, view, exec>>
  \/ /\ NotSettled
     /\ pending = EmptyBag
     /\ Len(apiGames[apiCurrentGameId].submissions) < Len(EntryOrder)
     /\ ApiSubmitBegin(EntryOrder[Len(apiGames[apiCurrentGameId].submissions) + 1], "hA")
     /\ UNCHANGED <<ledgerVars, schedVars, dbVars, pay, view, exec>>
  \/ \E q \in BagToSet(pending) : ApiSubmitVerified(q) /\ UNCHANGED <<ledgerVars, schedVars, dbVars, pay, view, exec>>
  \/ contractDeployed /\ FinalizeGame(Owner, currentGameId, 0)
       /\ UNCHANGED <<apiVars, schedVars, dbVars, pay, view, exec>>
  \/ \E t \in Triggers : NotSettled /\ FinBegin(t)
  \/ \E t \in Triggers : FinReadId(t)
  \/ \E t \in Triggers : FinReadInfo(t)
  \/ \E t \in Triggers : FinJudged(t)
  \/ \E t \in Triggers : FinSendTx(t)
  \/ \E t \in Triggers : FinReceipt(t)
  \/ \E t \in Triggers : FinRpcError(t)
  \/ \E t \in Triggers : FinStartNew(t)

SpecSched == InitSched /\ [][NextSched]_vars

\* The clock-driven trigger and the auto-finalize route running
\* finalizeCurrentGame at the same time, each called once: players enter on the
\* contract and on the server, the owner opens the first game.
NextRace ==
  \/ Tick
  \/ contractDeployed /\ currentGameId = 0 /\ StartGame(Owner, StdDuration)
       /\ UNCHANGED <<apiVars, schedVars, dbVars, pay, view, exec>>
  \/ /\ contractDeployed
     /\ NotSettled
     /\ games[currentGameId].entryCount < Cardinality(LedgerPlayers)
     /\ SubmitEntry(EntryOrder[games[currentGameId].entryCount + 1])
     /\ UNCHANGED <<apiVars, schedVars, dbVars, pay, view, exec>>
  \/ /\ NotSettled
     /\ pending = EmptyBag
     /\ Len(apiGames[apiCurrentGameId].submissions) < Cardinality(LedgerPlayers)
     /\ ApiSubmitBegin(EntryOrder[Len(apiGames[apiCurrentGameId].submissions) + 1], "hA")
     /\ UNCHANGED <<ledgerVars, schedVars, dbVars, pay, view, exec>>
  \/ \E q \in BagToSet(pending) : ApiSubmitVerified(q) /\ UNCHANGED <<ledgerVars, schedVars, dbVars, pay, view, exec>>
  \/ \E t \in Triggers : fin[t] = IdleAttempt /\ FinBegin(t)
  \/ \E t \in Triggers : FinReadId(t)
  \/ \E t \in Triggers : FinReadInfo(t)
  \/ \E t \in Triggers : FinJudged(t)
  \/ \E t \in Triggers : FinSendTx(t)
  \/ \E t \in Triggers : FinReceipt(t)
  \/ \E t \in Triggers : FinRpcError(t)
  \/ \E t \in Triggers : FinStartNew(t)

SpecRace == InitSched /\ [][NextRace]_vars

\* the judging model answers the attempt
FinJudgedOk(t) == FinJudged(t) /\ fin'[t].error = ""

\* the startGame transaction of startNewGame is mined
FinStartNewOk(t) == FinStartNew(t) /\ currentGameId' # currentGameId

\* The cron job firing again and again against the contract and the server's
\* entry storage: players enter on both, the deploy script opens the first game.
NextLive ==
  \/ Tick
  \/ contractDeployed /\ currentGameId = 0 /\ StartGame(Owner, StdDuration)
       /\ UNCHANGED <<apiVars, schedVars, dbVars, pay, view, exec>>
  \/ /\ contractDeployed
     /\ games[currentGameId].entryCount < Cardinality(LedgerPlayers)
     /\ SubmitEntry(EntryOrder[games[currentGameId].entryCount + 1])
     /\ UNCHANGED <<apiVars, schedVars, dbVars, pay, view, exec>>
  \/ /\ pending = EmptyBag
     /\ Len(apiGames[apiCurrentGameId].submissions) < Cardinality(LedgerPlayers)
     /\ ApiSubmitBegin(EntryOrder[Len(apiGames[apiCurrentGameId].submissions) + 1], "hA")
     /\ UNCHANGED <<ledgerVars, schedVars, dbVars, pay, view, exec>>
  \/ \E q \in BagToSet(pending) : ApiSubmitVerified(q) /\ UNCHANGED <<ledgerVars, schedVars, dbVars, pay, view, exec>>
  \/ FinBegin("cron")
  \/ FinReadId("cron")
  \/ FinReadInfo("cron")
  \/ FinJudged("cron")
  \/ FinSendTx("cron")
  \/ FinReceipt("cron")
  \/ FinRpcError("cron")
  \/ FinStartNew("cron")

\* time passes, a submit to the server is answered, the cron job keeps firing,
\* and the chain and the judging model answer a call that is made again and again
FairLive ==
  /\ WF_vars(Tick)
  /\ WF_vars(\E q \in BagToSet(pending) : ApiSubmitVerified(q) /\ UNCHANGED <<ledgerVars, schedVars, dbVars, pay, view, exec>>)
  /\ WF_vars(FinBegin("cron"))
  /\ SF_vars(FinReadId("cron"))
  /\ SF_vars(FinReadInfo("cron"))
  /\ SF_vars(FinJudgedOk("cron"))
  /\ SF_vars(FinSendTx("cron"))
  /\ SF_vars(FinReceipt("cron"))
  /\ SF_vars(FinStartNewOk("cron"))

SpecLive == Init /\ [][NextLive]_vars /\ FairLive

\* The server with the database: submits handled one after the other, every
\* database call answering or throwing.
NextDb ==
  \/ Tick
  \/ \E w \in ApiWallets, h \in ApiHashes : DbSubmitBegin(w, h)
  \/ DbSubmitVerified
  \/ DbHasEntered
  \/ DbAddEntry
  \/ DbUpdatePool
  \/ DbGetEntries
  \/ DbGetGame
  \/ dreq.pc = "idle" /\ ApiStartGame(StdDuration) /\ UNCHANGED <<ledgerVars, schedVars, dbVars, pay, view, exec>>

SpecDb == InitDb /\ [][NextDb]_vars

\* the database configured
InitScores ==
  /\ Constructed
  /\ contractDeployed = TRUE
  /\ apiKeySet = TRUE
  /\ dbUrlSet = TRUE
  /\ pay = NoPay

\* The entries table: submits insert rows, judging runs write their scores.
NextScores ==
  \/ Tick
  \/ \E w \in ApiWallets : DbSubmitBegin(w, "hA")
  \/ DbSubmitVerified
  \/ DbHasEntered
  \/ DbAddEntry
  \/ DbUpdatePool
  \/ DbGetEntries
  \/ DbGetGame
  \/ \E w \in ApiWallets, f \in JudgedTriples :
       UpdateEntryScores(apiCurrentGameId, w, f[1], f[2], f[3])

SpecScores == InitScores /\ [][NextScores]_vars

\* The contract and its views: the owner opens and finalizes games, players
\* enter, time passes, and anyone reads the views at any time.
NextView ==
  \/ Tick
  \/ \E d \in Durations : StartGame(Owner, d) /\ UNCHANGED <<apiVars, schedVars, dbVars, pay, view, exec>>
  \/ \E p \in LedgerPlayers : SubmitEntry(p) /\ UNCHANGED <<apiVars, schedVars, dbVars, pay, view, exec>>
  \/ \E g \in GameIds, i \in 0..Cardinality(LedgerPlayers) :
       FinalizeGame(Owner, g, i) /\ UNCHANGED <<apiVars, schedVars, dbVars, pay, view, exec>>
  \/ ReadViews /\ UNCHANGED <<apiVars, schedVars, dbVars, pay, exec>>

SpecView == Init /\ [][NextView]_vars

\* The contract with finalizeGame executed statement by statement: between two
\* transactions the owner opens games, players enter and time passes; inside
\* finalizeGame the token may call back into the contract.
NextExec ==
  \/ exec.pc = "none" /\ Tick
  \/ \E d \in Durations : exec.pc = "none" /\ StartGame(Owner, d)
       /\ UNCHANGED <<apiVars, schedVars, dbVars, pay, view, exec>>
  \/ \E p \in LedgerPlayers : exec.pc = "none" /\ SubmitEntry(p)
       /\ UNCHANGED <<apiVars, schedVars, dbVars, pay, view, exec>>
  \/ \E c \in Callers, g \in GameIds, i \in 0..Cardinality(LedgerPlayers) :
       ExecFinalizeEnter(c, g, i) /\ UNCHANGED <<apiVars, schedVars, dbVars, pay, view>>
  \/ ExecTransferWinner /\ UNCHANGED <<apiVars, schedVars, dbVars, pay, view>>
  \/ ExecTransferFee /\ UNCHANGED <<apiVars, schedVars, dbVars, pay, view>>
  \/ \E c \in Callers, g \in GameIds, i \in 0..Cardinality(LedgerPlayers) :
       ExecReenter(c, g, i) /\ UNCHANGED <<apiVars, schedVars, dbVars, pay, view>>

SpecExec == Init /\ [][NextExec]_vars

\* the scheduler with the ledger and the server admitting the players in any
\* order, independently of each other; one call per run
NextPair ==
  \/ Tick
  \/ contractDeployed /\ currentGameId = 0 /\ StartGame(Owner, StdDuration)
       /\ UNCHANGED <<apiVars, schedVars, dbVars, pay, view, exec>>
  \/ \E p \in LedgerPlayers :
       /\ contractDeployed
       /\ NotSettled
       /\ SubmitEntry(p)
       /\ UNCHANGED <<apiVars, schedVars, dbVars, pay, view, exec>>
  \/ \E w \in LedgerPlayers :
       /\ NotSettled
       /\ pending = EmptyBag
       /\ ApiSubmitBegin(w, "hA")
       /\ UNCHANGED <<ledgerVars, schedVars, dbVars, pay, view, exec>>
  \/ \E q \in BagToSet(pending) : ApiSubmitVerified(q) /\ UNCHANGED <<ledgerVars, schedVars, dbVars, pay, view, exec>>
  \/ \E t \in Triggers : NotSettled /\ FinBegin(t)
  \/ \E t \in Triggers : FinReadId(t)
  \/ \E t \in Triggers : FinReadInfo(t)
  \/ \E t \in Triggers : FinJudged(t)
  \/ \E t \in Triggers : FinSendTx(t)
  \/ \E t \in Triggers : FinReceipt(t)
  \/ \E t \in Triggers : FinRpcError(t)
  \/ \E t \in Triggers : FinStartNew(t)

SpecPair == InitSched /\ [][NextPair]_vars

\* a transaction hash that resolves to any of the receipts is about to be verified
InitPay ==
  /\ Constructed
  /\ contractDeployed = TRUE
  /\ apiKeySet = TRUE
  /\ dbUrlSet = FALSE
  /\ pay \in {[NoPay EXCEPT !.receipt = receipt] : receipt \in Receipts}

\* the call verifyPayment(txHash), expectedAmount at its default ENTRY_FEE
VerifyCall ==
  /\ ~pay.called
  /\ pay' = [pay EXCEPT !.called = TRUE, !.expectedAmount = ENTRY_FEE,
                        !.result = VerifyReceipt(pay.receipt, ENTRY_FEE)]
  /\ UNCHANGED <<now, ledgerVars, apiVars, schedVars, dbVars, view, exec>>

NextPay == VerifyCall

\* the payment verifier alone, called with every receipt
SpecPay == InitPay /\ [][NextPay]_vars

\* ------------------------------------------------------------------ claims

\* a step in which a finalizeGame transaction on game g was executed
FinalizeStep(g) ==
  /\ tx' # tx
  /\ tx'.fn = "finalizeGame"
  /\ tx'.gameId = g

C1_PaidAtMostOnce ==
  \A g \in GameIds :
    /\ payouts[g] <= 1
    /\ games[g].finalized <=> payouts[g] = 1

C1_LaterCallFails ==
  \A g \in GameIds :
    (games[g].finalized /\ FinalizeStep(g) /\ tx'.err # "OwnableUnauthorizedAccount")
      => /\ tx'.err = "GameAlreadyFinalized"
         /\ usdc' = usdc
         /\ games' = games
         /\ payouts' = payouts

\* C1: for every game id, over any sequence of finalizeGame calls (any winner
\* index), at most one call pays out: the game is finalized exactly when one
\* payout was made, and every later call by the owner on a finalized game
\* fails with GameAlreadyFinalized and moves no funds.
C1_FinalizeAtMostOnce == []C1_PaidAtMostOnce /\ [][C1_LaterCallFails]_vars

\* C1 witness: a repeated finalizeGame on a game that was paid out has been
\* rejected with GameAlreadyFinalized
C1_Witness ==
  /\ tx.fn = "finalizeGame"
  /\ tx.err = "GameAlreadyFinalized"
  /\ payouts[tx.gameId] = 1
  /\ games[tx.gameId].finalized

C2_FeeSplit ==
  (tx.fn = "finalizeGame" /\ tx.err = "") =>
    LET P == games[tx.gameId].prizePool
    IN /\ tx.paidFee * 10000 <= P * 1000
       /\ P * 1000 < (tx.paidFee + 1) * 10000
       /\ tx.paidWinner = P - tx.paidFee
       /\ tx.paidFee + tx.paidWinner = P

C2_Transferred ==
  \A g \in GameIds :
    (FinalizeStep(g) /\ tx'.err = "") =>
      LET P == games[g].prizePool
          fee == (P * 1000) \div 10000
          winner == games'[g].winner
      IN /\ tx'.paidFee = fee
         /\ tx'.paidWinner = P - fee
         /\ usdc'[Escrow] = usdc[Escrow] - P
         /\ usdc'[platformWallet] = usdc[platformWallet] + fee
         /\ usdc'[winner] = usdc[winner] + (P - fee)
         /\ \A a \in Accounts \ {Escrow, winner, platformWallet} : usdc'[a] = usdc[a]

\* C2: for every finalized game with pool P, platformFee = floor(P*1000/10000),
\* winnerPrize = P - platformFee, the two sum to P, and the successful
\* finalizeGame moves exactly these two amounts out of escrow, to the winner
\* and to the platform wallet.
C2_FeeArithmetic == []C2_FeeSplit /\ [][C2_Transferred]_vars

\* C2 witness: a game with a pool of two entry fees has been paid out
C2_Witness ==
  /\ tx.fn = "finalizeGame"
  /\ tx.err = ""
  /\ games[tx.gameId].prizePool = 2 * ENTRY_FEE
  /\ tx.paidFee = 10000
  /\ tx.paidWinner = 90000

\* the submissions of player (in any letter case) in a list of submissions
EntriesOf(submissions, player) ==
  {i \in 1..Len(submissions) : ToLowerCase(submissions[i].playerAddress) = player}

C3_OneEntryPerPlayer ==
  \A g \in GameIds, p \in Players :
    /\ Cardinality({i \in 1..Len(gameEntries[g]) : gameEntries[g][i].player = p}) <= 1
    /\ Cardinality(EntriesOf(apiGames[g].submissions, p)) <= 1

\* a submit by a player who holds an entry of the current game admits nothing,
\* and is answered AlreadyEntered when the game-active check lets it through
C3_SecondSubmitFails ==
  /\ \A p \in Players :
       (p \in hasEntered[currentGameId] /\ SubmitEntry(p)) =>
         /\ tx'.err \in {"AlreadyEntered", "GameNotActive"}
         /\ now <= games[currentGameId].endTime => tx'.err = "AlreadyEntered"
         /\ gameEntries' = gameEntries
  /\ \A w \in WalletAddresses, h \in TxHashes :
       (/\ EntriesOf(apiGames[apiCurrentGameId].submissions, ToLowerCase(w)) # {}
        /\ ApiSubmitBegin(w, h)) =>
         /\ submitReply'.error \in {"Already entered this game", "No active game"}
         /\ now <= apiGames[apiCurrentGameId].endTime =>
              submitReply'.error = "Already entered this game"
         /\ pending' = pending
         /\ apiGames' = apiGames

C4_ConcurrentSubmitsAdmitOne ==
  \A g \in GameIds, p \in Players :
    \A i, j \in EntriesOf(apiGames[g].submissions, p) : i = j

\* C5: a payment proof (transaction hash) is consumed by at most one admitted
\* entry, over all players and games.
C5_ProofConsumedOnce ==
  \A g1, g2 \in GameIds :
    \A i \in 1..Len(apiGames[g1].submissions), j \in 1..Len(apiGames[g2].submissions) :
      apiGames[g1].submissions[i].paymentTxHash = apiGames[g2].submissions[j].paymentTxHash
        => (g1 = g2 /\ i = j)

\* the highest total of a judging, and the entries that reached it
MaxTotal(totals) == CHOOSE m \in {totals[i] : i \in 1..Len(totals)} :
                      \A i \in 1..Len(totals) : totals[i] <= m

TopEntries(totals) == {i \in 1..Len(totals) : totals[i] = MaxTotal(totals)}

\* C6: the winner index the scheduler forwards to the ledger is the admission
\* index of the entry the judge gave the highest total, also when the scores
\* come through judgeSubmissions and judgeArtworks.
C6_ForwardedIndexHasMaxTotal ==
  \A t \in Triggers :
    fin[t].pc = "sendTx" => (fin[t].winnerIndex + 1) \in TopEntries(fin[t].totals)

\* C7: among the entries that tie on the highest total, the winner is the one
\* admitted first: totals 21, 27, 27 make the second entry win.
C7_TieGoesToEarliest ==
  \A t \in Triggers :
    (fin[t].decided /\ Cardinality(TopEntries(fin[t].totals)) >= 2) =>
      /\ (fin[t].winnerIndex + 1) \in TopEntries(fin[t].totals)
      /\ \A i \in TopEntries(fin[t].totals) : fin[t].winnerIndex + 1 <= i

EmptyGameError == "No entries, started new game"

C8_NoWinnerForEmptyGame ==
  /\ \A t \in Triggers :
       (contractDeployed /\ fin[t].pc \in {"judging", "sendTx", "waitReceipt", "startNew"}) =>
         games[fin[t].gameId].entryCount > 0
  /\ \A g \in GameIds :
       games[g].entryCount = 0 =>
         ~games[g].finalized /\ games[g].winner = NoAddress /\ payouts[g] = 0

\* the scheduler's step that ends the settlement of an empty game
C8_EmptyStep ==
  \A t \in Triggers :
    (fin[t].pc = "startNewEmpty" /\ fin'[t].pc = "idle") =>
      LET g == fin[t].gameId
      IN /\ ~fin'[t].success /\ fin'[t].error = EmptyGameError
         /\ usdc' = usdc /\ payouts' = payouts
         /\ games'[g] = games[g]
         /\ games[g].entryCount = 0 => games'[g].prizePool = 0
         /\ \/ currentGameId' = currentGameId /\ games' = games
            \/ /\ currentGameId' = currentGameId + 1
               /\ games'[currentGameId'].startTime = now
               /\ games'[currentGameId'].endTime = now + StdDuration
               /\ games'[currentGameId'].entryCount = 0
               /\ ~games'[currentGameId'].finalized
         /\ apiCurrentGameId' = apiCurrentGameId /\ apiGames' = apiGames

C9_SingleEntryWinsMaximal ==
  /\ \A t \in Triggers :
       fin[t].count = 1 =>
         /\ fin[t].pc # "judging"
         /\ fin[t].decided => fin[t].winnerIndex = 0 /\ fin[t].highestScore = 30
  /\ (tx.fn = "finalizeGame" /\ tx.err = "" /\ games[tx.gameId].prizePool = ENTRY_FEE) =>
       tx.paidWinner = 45000 /\ tx.paidFee = 5000

\* C10: on no finalize path does a game become finalized while now < end.
C10_NoFinalizeBeforeEnd ==
  /\ \A g \in GameIds : games[g].finalized => now >= games[g].endTime
  /\ \A g \in GameIds : apiGames[g].finalized => now >= apiGames[g].endTime

\* C11: a game is opened only when the previous game is finalized or has no
\* entries, so no game below the current id is unfinalized while holding entries.
C11_NoStrandedGame ==
  \A g \in GameIds :
    (g < currentGameId /\ games[g].entryCount > 0) => games[g].finalized

\* C12: an entry is admitted only inside [start, end] of a game that is not
\* finalized, also at now = end, and a finalized game's pool, entry count,
\* entries and winner never change again.
C12_FinalizedGameFrozen ==
  [][\A g \in GameIds :
       /\ Len(gameEntries'[g]) > Len(gameEntries[g]) =>
            /\ games[g].startTime <= now /\ now <= games[g].endTime
            /\ ~games[g].finalized
       /\ games[g].finalized =>
            games'[g] = games[g] /\ gameEntries'[g] = gameEntries[g]]_vars

\* C13: a finalized game's winner is the owner of one of its admitted entries or
\* the no-winner value, on the ledger and in the server's game record, whose
\* winnerId comes from the judging result.
C13_WinnerIsAnEntrant ==
  /\ \A g \in GameIds :
       games[g].finalized =>
         \/ games[g].winner = NoAddress
         \/ \E i \in 1..Len(gameEntries[g]) : gameEntries[g][i].player = games[g].winner
  /\ \A g \in GameIds :
       apiGames[g].finalized =>
         \/ apiGames[g].winnerId = 0
         \/ \E i \in 1..Len(apiGames[g].submissions) :
              apiGames[g].submissions[i].id = apiGames[g].winnerId

SettlementErrors == {"GameAlreadyFinalized", "NoEntries", "InvalidWinner"}

\* a finalizeGame call of the owner on game g with winner index i
C14_FinalizeStep(g, i) ==
  FinalizeGame(Owner, g, i) =>
    LET game == games[g]
        ended == now >= game.endTime
    IN /\ game.finalized => tx'.err = "GameAlreadyFinalized"
       /\ (ended /\ ~game.finalized /\ game.entryCount = 0) => tx'.err = "NoEntries"
       /\ (ended /\ ~game.finalized /\ game.entryCount > 0 /\ i >= Len(gameEntries[g])) =>
            tx'.err = "InvalidWinner"
       /\ tx'.err \in SettlementErrors =>
            /\ games' = games /\ gameEntries' = gameEntries
            /\ usdc' = usdc /\ payouts' = payouts

\* C14: finalizeGame sent by the owner for a game past its end fails with
\* GameAlreadyFinalized when the game is finalized, else with NoEntries when it
\* has no entries, else with InvalidWinner when the winner index names no entry
\* of the game; each of these failures leaves every game record and every token
\* balance as it was.
C14_FinalizeFailuresChangeNothing ==
  [][\A g \in GameIds, i \in 0..Cardinality(LedgerPlayers) : C14_FinalizeStep(g, i)]_vars

\* an invalid winner index was rejected for a game with entries while another
\* game is finalized and the escrow holds funds
C14_Witness ==
  /\ tx.fn = "finalizeGame" /\ tx.err = "InvalidWinner"
  /\ games[tx.gameId].entryCount > 0
  /\ usdc[Escrow] > 0
  /\ \E g \in GameIds : games[g].finalized

ActiveGameExists == \E g \in GameIds : games[g].entryCount > 0 /\ ~games[g].finalized

\* C15: emergencyWithdraw succeeds only for the owner and only when no game of
\* any id holds entries unfinalized; while such a game exists the call fails and
\* the escrow balance stays as it was.
C15_WithdrawOnlyWhenNoActiveGame ==
  [][\A c \in Callers :
       EmergencyWithdraw(c) =>
         /\ tx'.err = "" => c = Owner /\ ~ActiveGameExists
         /\ ActiveGameExists => tx'.err # "" /\ usdc'[Escrow] = usdc[Escrow]]_vars

\* the player of a submit has an entry in the current game of the server, in
\* memory or in the database
EnteredOnServer(walletAddress) ==
  \/ AlreadyEntered(apiGames[apiCurrentGameId].submissions, walletAddress)
  \/ HasPlayerEntered(apiCurrentGameId, walletAddress)

ServerGameActive ==
  apiGames[apiCurrentGameId].exists /\ now <= apiGames[apiCurrentGameId].endTime

\* C16: every submit path checks first that the game is active, then that the
\* player has no entry in it, and only then verifies the payment: a submit for
\* an inactive game or by an entered player never reaches payment verification.
C16_ChecksBeforePayment ==
  [][/\ \A q \in BagToSet(pending') :
          CopiesIn(q, pending') > CopiesIn(q, pending) =>
            ServerGameActive /\ ~EnteredOnServer(q.walletAddress)
     /\ (dreq.pc = "idle" /\ dreq'.pc = "verify") =>
          ServerGameActive /\ ~EnteredOnServer(dreq'.walletAddress)]_vars

AdmissionErrors ==
  {"No active game", "Already entered this game", "Payment verification failed",
   "GameNotActive", "AlreadyEntered"}

\* a step in which a submit to a server is answered
SubmitAnswered ==
  \/ dreq.pc # "idle" /\ dreq'.pc = "idle"
  \/ BagCardinality(pending') < BagCardinality(pending)
  \/ submitReply' # submitReply /\ pending' = pending /\ dreq' = dreq

\* C17: a submit that fails with an admission error leaves the entries, the
\* entry count and the pool of every game as they were before the submit, on
\* the ledger, in the server's memory and in its database.
C17_FailedSubmitChangesNothing ==
  [][/\ \A p \in Players :
          (SubmitEntry(p) /\ tx'.err \in AdmissionErrors) =>
            games' = games /\ gameEntries' = gameEntries /\ usdc' = usdc
     /\ (SubmitAnswered /\ submitReply'.error \in AdmissionErrors) =>
          /\ apiGames' = apiGames
          /\ dreq.pc # "idle" =>
               /\ Len(dbEntries') = dreq.rowsBefore
               /\ dbGames'[dreq.gameId].entryCount = dreq.countBefore]_vars

\* between submits every game's entry count and pool match its recorded entries,
\* on the ledger and in the database
C18_CountMatchesEntries ==
  /\ \A g \in GameIds :
       /\ games[g].entryCount = Len(gameEntries[g])
       /\ games[g].prizePool = ENTRY_FEE * games[g].entryCount
  /\ dreq.pc = "idle" =>
       \A g \in GameIds :
         /\ dbGames[g].entryCount = Len(DbEntriesOf(g))
         /\ dbGames[g].prizePool = ENTRY_FEE * dbGames[g].entryCount

\* an entry is written by the server only for a payment that verified
C18_PaymentFirst ==
  (dbEntries' # dbEntries \/ (dreq.pc # "idle" /\ apiGames' # apiGames)) =>
    VerifyPayment(dreq.paymentTxHash, ENTRY_FEE).valid

\* C18: admission is one unit: the payment is confirmed before any entry, pool or
\* count is written, and a step failing after the verification never leaves an
\* entry recorded without its pool and count increment.
C18_AdmissionIsAtomic == []C18_CountMatchesEntries /\ [][C18_PaymentFirst]_vars

\* the logs of a receipt that are USDC transfers to the escrow
TransfersToEscrow(receipt) ==
  {i \in 1..Len(receipt.logs) :
     /\ receipt.logs[i].token = "USDC"
     /\ receipt.logs[i].topic = "Transfer"
     /\ receipt.logs[i].to = Escrow}

\* C19: verifyPayment answers valid only for a transaction that succeeded and
\* transfers at least the expected amount of the token to the escrow; a missing
\* or failed transaction, no transfer to the escrow, or an amount below the
\* expected one give an invalid result; an amount above the expected one is
\* accepted; a failure, the lookup throwing included, is returned as an invalid
\* result.
C19_VerifyDecision ==
  pay.called =>
    LET r == pay.receipt
        logs == TransfersToEscrow(r)
        ok == r.found /\ r.status = "success"
    IN /\ pay.result.valid =>
            ok /\ \E i \in logs : r.logs[i].amount >= pay.expectedAmount
       /\ ~ok => ~pay.result.valid /\ pay.result.error # ""
       /\ logs = {} => ~pay.result.valid
       /\ (\A i \in logs : r.logs[i].amount < pay.expectedAmount) => ~pay.result.valid
       /\ (ok /\ logs # {} /\ \A i \in logs : r.logs[i].amount >= pay.expectedAmount) =>
            pay.result.valid

\* a payment above the entry fee, behind a log that is no transfer to the
\* escrow, was accepted
C19_Witness ==
  /\ pay.called /\ pay.result.valid
  /\ pay.result.amount > pay.expectedAmount
  /\ Len(pay.receipt.logs) = 2
  /\ TransfersToEscrow(pay.receipt) = {2}

\* C20: a finalize attempt of the scheduler on a game that is already finalized
\* changes nothing, pays nothing and reports success, which the timer and the
\* auto-finalize route take as success.
C20_FinalizedGameIsSuccess ==
  [][\A t \in Triggers :
       (FinReadInfo(t) /\ InfoBranch(games[fin[t].gameId]) = "finalized") =>
         /\ fin'[t].pc = "idle" /\ fin'[t].success
         /\ UNCHANGED ledgerVars
         /\ t = "route" => reply'.error = ""]_vars

\* the attempt has judged the entries of game g and logged its winner
Judged(t, g) ==
  /\ fin[t].gameId = g
  /\ fin[t].decided
  /\ fin[t].pc \in {"sendTx", "waitReceipt", "startNew"}

C21_PaidOnce == \A g \in GameIds : payouts[g] <= 1

C21_SameWinner ==
  \A g \in GameIds :
    (Judged("cron", g) /\ Judged("route", g)) =>
      fin["cron"].winnerIndex = fin["route"].winnerIndex

\* C21: when the clock-driven trigger and the manual trigger both read the same
\* unfinalized game, both judge it and both submit finalize, the game is paid
\* out at most once and both attempts declare the same winner.
C21_ConcurrentTriggersAgree == C21_PaidOnce /\ C21_SameWinner

\* the state of the games, on the ledger and on the server
gameState == <<currentGameId, games, gameEntries, hasEntered, payouts, usdc,
               apiCurrentGameId, apiGames>>

\* attempt t returns in this step
AttemptReturns(t) == fin[t].pc # "idle" /\ fin'[t].pc = "idle"

\* C22: a step in which a finalize attempt returns a failure changes no game
\* state and opens no game, on the ledger and on the server; a step of an attempt
\* opens a game only when the attempt then reports success.
C22_FailureLeavesGamesUntouched ==
  [][\A t \in Triggers :
       /\ (AttemptReturns(t) /\ ~fin'[t].success) => UNCHANGED gameState
       /\ (fin[t].pc # "idle" /\ fin'[t] # fin[t] /\
           (currentGameId' # currentGameId \/ apiCurrentGameId' # apiCurrentGameId))
            => (fin'[t].pc = "idle" /\ fin'[t].success)]_vars

\* the same, the attempts that found the game without entries left aside
C22_FailureAfterEntries ==
  [][\A t \in Triggers :
       (AttemptReturns(t) /\ ~fin'[t].success /\ fin[t].pc # "startNewEmpty")
         => UNCHANGED gameState]_vars

\* a game as startGame(duration) leaves it at time t
OpenedAt(t, duration) == [EmptyGame EXCEPT !.startTime = t, !.endTime = t + duration]

\* C23: when a finalize attempt against the contract returns success, the game
\* after the one it settled is the ledger's current game, opened in that step
\* with the standard duration, pool 0, no entries, not finalized.
C23_SuccessOpensNextGame ==
  [][\A t \in Triggers :
       (contractDeployed /\ AttemptReturns(t) /\ fin'[t].success) =>
         /\ currentGameId' = currentGameId + 1
         /\ games'[currentGameId'] = OpenedAt(now, StdDuration)
         /\ gameEntries'[currentGameId'] = <<>>]_vars

JudgingUnavailable == "Could not parse judge response"

C25_NoWinnerWithoutKey ==
  ~apiKeySet => \A t \in Triggers : ~(fin[t].decided /\ fin[t].count > 1)

\* game g has reached its end with at least one entry
EndedWithEntries(g) == games[g].entryCount > 0 /\ now >= games[g].endTime

\* C26: every game that has reached its end time with at least one entry is
\* eventually finalized, the cron job firing forever and the chain and the
\* judging model answering.
C26_EndedGameEventuallyFinalized ==
  \A g \in 1..MaxGames : EndedWithEntries(g) ~> games[g].finalized

\* a call of the ledger's startGame or finalizeGame by someone else than the
\* owner changes no game, entry, balance or payout
C27_LedgerOnlyOwner ==
  [][\A c \in Callers :
       (~IsOwner(c) /\
        \/ \E d \in Durations : StartGame(c, d)
        \/ \E g \in GameIds, i \in 0..Cardinality(LedgerPlayers) : FinalizeGame(c, g, i))
         => UNCHANGED <<currentGameId, games, gameEntries, hasEntered, payouts, usdc>>]_vars

\* a call of the server's admin start-game or finalize route by someone else
\* than the owner changes no game of the server
C27_RoutesOnlyOwner ==
  [][\A c \in Callers :
       (~IsOwner(c) /\ (AdminStartGame(c, StdDuration) \/ AdminFinalize(c)))
         => UNCHANGED <<apiCurrentGameId, apiGames>>]_vars

\* C27: the manual game-open and finalize triggers, on the ledger and on the
\* server, change game state only when called by the privileged caller.
C27_OnlyPrivilegedCallers == C27_LedgerOnlyOwner /\ C27_RoutesOnlyOwner

Scored(row) == row.score # NoScore

C28_ScoresInRange ==
  \A i \in 1..Len(dbEntries) :
    Scored(dbEntries[i]) =>
      LET sc == dbEntries[i].score
      IN /\ sc.creativity \in 1..10 /\ sc.technique \in 1..10 /\ sc.theme \in 1..10
         /\ sc.total = sc.creativity + sc.technique + sc.theme

C28_RecordedScoreKept ==
  \A i \in 1..Len(dbEntries) :
    Scored(dbEntries[i]) => dbEntries'[i].score = dbEntries[i].score

EntriesAdmitted(g) ==
  Len(DbEntriesOf(g)) +
  Cardinality({i \in 1..Len(apiGames[g].submissions) :
                 ~HasPlayerEntered(g, apiGames[g].submissions[i].playerAddress)})

\* C29: a submit that is answered with success returns as position the number
\* of entries admitted to its game up to and including its own.
C29_PositionCountsAdmitted ==
  [][(dreq.pc # "idle" /\ dreq'.pc = "idle" /\ submitReply'.error = "") =>
       \E g \in GameIds :
         /\ g = dreq.gameId
         /\ submitReply'.position = EntriesAdmitted(g)']_vars

\* the same on the first server, where a submit is answered in the step that
\* pushes its submission
C29_PositionIsLength ==
  [][\A q \in BagToSet(pending) :
       (ApiSubmitVerified(q) /\ submitReply'.error = "") =>
         \E g \in GameIds :
           /\ Len(apiGames'[g].submissions) = Len(apiGames[g].submissions) + 1
           /\ submitReply'.position = Len(apiGames'[g].submissions)]_vars

Max0(x) == IF x > 0 THEN x ELSE 0

\* C30: the time-remaining view answers max(0, end - now) for the current game,
\* without underflow, and the active view answers true exactly when
\* start <= now <= end.
C30_ViewsAnswer ==
  view.called =>
    /\ view.timeRemaining = Max0(view.endTime - view.timestamp)
    /\ view.timeRemaining >= 0
    /\ view.apiTimeRemaining = Max0(view.apiEndTime - view.timestamp)
    /\ view.active <=> (view.startTime <= view.timestamp /\ view.timestamp <= view.endTime)

\* the views were read after the end of a game: nothing remains and the game is
\* not active
C30_Witness ==
  /\ view.called
  /\ view.endTime > 0
  /\ view.timestamp > view.endTime
  /\ view.timeRemaining = 0
  /\ ~view.active
  /\ view.timestamp > view.apiEndTime
  /\ view.apiTimeRemaining = 0

\* the players of the entries of game g
EntryPlayers(g) == {gameEntries[g][i].player : i \in 1..Len(gameEntries[g])}

\* C31: for every game id the pool is the entry fee times the entry count, the
\* entry count is the length of the game's entry array, and the players marked
\* as entered are the players of its entries.
C31_LedgerInvariant ==
  \A g \in GameIds :
    /\ games[g].prizePool = ENTRY_FEE * games[g].entryCount
    /\ games[g].entryCount = Len(gameEntries[g])
    /\ hasEntered[g] = EntryPlayers(g)

\* one game is finalized with two entries while a later game has one entry
C31_Witness ==
  \E g, h \in GameIds :
    /\ g < h
    /\ games[g].finalized /\ games[g].entryCount = 2
    /\ games[h].entryCount = 1 /\ hasEntered[h] # {}

\* the pools of the unfinalized games with id up to g, summed
RECURSIVE OpenPools(_)
OpenPools(g) ==
  IF g = 0 THEN 0
  ELSE (IF games[g].finalized THEN 0 ELSE games[g].prizePool) + OpenPools(g - 1)

\* C32: the escrow's token balance is at least the sum of the pools of the
\* unfinalized games, so every ended, unfinalized game with entries can be paid
\* in full.
C32_EscrowSolvent == usdc[Escrow] >= OpenPools(MaxGames)

\* the transfers of finalizeGame for game g are under way
Transferring(g) == exec.pc \in {"transferWinner", "transferFee"} /\ exec.gameId = g

C33_FinalizedBeforeFundsLeave ==
  \A g \in GameIds :
    /\ (Transferring(g) \/ payouts[g] > 0) =>
         (games[g].finalized /\ games[g].winner # NoAddress)
    /\ payouts[g] <= 1

C33_ReentryPaysNothing ==
  \A c \in Callers, g \in GameIds, i \in 0..Cardinality(LedgerPlayers) :
    ExecReenter(c, g, i) =>
      /\ tx'.err # ""
      /\ UNCHANGED <<games, usdc, payouts, exec>>

\* C33: finalizeGame writes the winner and the finalized flag before any token
\* transfer: whenever funds of a game are leaving or have left the escrow the
\* game is marked finalized, a finalizeGame call made during the transfers is
\* refused without effect, and no game is paid twice.
C33_WritesBeforeTransfers ==
  []C33_FinalizedBeforeFundsLeave /\ [][C33_ReentryPaysNothing]_vars

\* the owner's call of finalizeGame for the game being paid was refused between
\* the two transfers
C33_Witness ==
  /\ exec.pc = "transferFee"
  /\ tx.fn = "finalizeGame"
  /\ tx.gameId = exec.gameId
  /\ tx.err = "ReentrancyGuardReentrantCall"
  /\ usdc[exec.winner] > InitialBalance(exec.winner) - ENTRY_FEE

C34_LedgerIds ==
  /\ currentGameId' \in {currentGameId, currentGameId + 1}
  /\ \A g \in GameIds :
       /\ Len(gameEntries'[g]) > Len(gameEntries[g]) => g = currentGameId
       /\ g > currentGameId' => (games'[g] = EmptyGame /\ gameEntries'[g] = <<>>)

C34_ServerIds ==
  /\ apiCurrentGameId' \in {apiCurrentGameId, apiCurrentGameId + 1}
  /\ \A g \in GameIds :
       /\ Len(apiGames'[g].submissions) > Len(apiGames[g].submissions)
            => g = apiCurrentGameId
       /\ g > apiCurrentGameId' => apiGames'[g] = NoApiGame

\* C34: on the ledger and on the server the current game id moves only up and
\* by one, an entry is added only to the game that is current when it is
\* admitted, and no game above the current id is created or changed.
C34_GameIdMonotone == [][C34_LedgerIds /\ C34_ServerIds]_vars

\* the server and the ledger name the same game as current, and mark the same
\* games as finalized
Synced ==
  /\ apiCurrentGameId = currentGameId
  /\ \A g \in GameIds : apiGames[g].finalized = games[g].finalized

\* a finalize attempt on the deployed contract returns, having read from the
\* ledger the id the server holds as current, with every other game marked alike
\* on both sides
SyncedAttemptReturns(t) ==
  /\ contractDeployed
  /\ AttemptReturns(t)
  /\ fin[t].gameId = apiCurrentGameId
  /\ \A g \in GameIds \ {fin[t].gameId} : apiGames[g].finalized = games[g].finalized

\* C35: when a finalize attempt (timer or auto-finalize route, succeeding or
\* failing) returns, the server's current game id equals the ledger's and the
\* server marks a game finalized exactly when the ledger does.
C35_BackendFollowsLedger ==
  [][\A t \in Triggers : SyncedAttemptReturns(t) => Synced']_vars

\* the players of the list a finalize attempt reads for game g from the entries
\* storage, in the order of the list
StoragePlayers(g) ==
  LET entries == StorageEntries(entriesForAutomation[g])
  IN [i \in 1..Len(entries) |-> ToLowerCase(entries[i].playerAddress)]

\* the players submit admitted to game g in memory, in the order of admission
MemoryPlayers(g) ==
  [i \in 1..Len(apiGames[g].submissions) |->
     ToLowerCase(apiGames[g].submissions[i].playerAddress)]

\* the players submit admitted to game g in the database
DbPlayers(g) == {DbEntriesOf(g)[i].playerAddress : i \in 1..Len(DbEntriesOf(g))}

\* C36: for every game the list a finalize attempt reads from the entries
\* storage holds exactly the entries submit admitted to that game: as many as
\* were admitted in memory and in the database, every player admitted in the
\* database, and the players admitted in memory in their order of admission.
C36_StorageHoldsAdmitted ==
  \A g \in 1..MaxGames :
    LET s == StoragePlayers(g)
        inMemory(p) == \E i \in 1..Len(MemoryPlayers(g)) : MemoryPlayers(g)[i] = p
    IN /\ Len(s) = Len(DbEntriesOf(g)) + Len(MemoryPlayers(g))
       /\ \A p \in DbPlayers(g) : \E i \in 1..Len(s) : s[i] = p
       /\ SelectSeq(s, inMemory) = MemoryPlayers(g)

\* the transaction a finalize attempt sent went through
SentAndPaid(t) == fin[t].pc = "sendTx" /\ fin'[t].pc = "waitReceipt"

\* the player of the entry the attempt judged the winner
JudgedWinner(t) ==
  StorageEntries(fin[t].store)[fin[t].winnerIndex + 1].playerAddress

\* C37: the address the ledger pays on finalizeGame(gameId, i) is the player of
\* the entry the server judged the winner, index i denoting the same entry in the
\* server's list and in the ledger's array.
C37_PaidIsJudgedWinner ==
  [][\A t \in Triggers :
       SentAndPaid(t) => games'[fin[t].gameId].winner = JudgedWinner(t)]_vars

\* with no submit in flight, the games row of every game counts the rows of
\* table entries for the game, and holds one entry fee per counted entry
C38_CountsRows ==
  dreq.pc = "idle" =>
    \A g \in 1..MaxGames :
      /\ dbGames[g].entryCount = Len(DbEntriesOf(g))
      /\ dbGames[g].prizePool = dbGames[g].entryCount * ENTRY_FEE

\* no player holds an entry for the same game in the database and in memory
C38_OneStorePerEntry ==
  \A g \in 1..MaxGames :
    \A i \in 1..Len(apiGames[g].submissions) :
      ~HasPlayerEntered(g, apiGames[g].submissions[i].playerAddress)

\* C38: in the database store, after any sequence of submits, entry_count of a
\* game is the number of its rows in entries and prize_pool is entry_count times
\* the entry fee, and no player has an entry for the same game in both the
\* database and the in-memory fallback store.
C38_DatabaseConsistent == C38_CountsRows /\ C38_OneStorePerEntry

====
